---- MODULE Spec2Model ----
(***************************************************************************)
(* Output-device management of MerPlayer (src-tauri/src/audio_device.rs).  *)
(*                                                                         *)
(* The model follows the Tauri commands set_audio_device,                  *)
(* toggle_exclusive_mode, get_exclusive_mode and get_current_audio_device  *)
(* in source order.  Every `state.player.<field>.lock()` scope of the       *)
(* source is one atomic step (the mutex makes the scope atomic and no      *)
(* scope contains a blocking call); the steps of concurrently dispatched   *)
(* commands interleave freely between scopes.  Statements that touch only  *)
(* locals, the host audio subsystem (which does not change during a run)   *)
(* or current_path (which these commands never write) commute with every   *)
(* step of the other threads and are executed with the neighbouring lock   *)
(* scope.                                                                  *)
(***************************************************************************)
EXTENDS Integers, FiniteSets, Sequences, TLC

\* ---------------------------------------------------------------- bounds
\* Number of command invocations (each dispatched on its own thread).
NumThreads == 2

\* Largest number of output devices attached when the devices are listed.
MaxAttached == 2

\* ------------------------------------------------------------- constants
Threads == 1..NumThreads

Devices == {"Speakers", "Headphones"}

\* Names a caller may pass: the host's devices and one that never exists.
DeviceNames == Devices \cup {"Ghost"}

\* Volume is kept in tenths; a fresh rodio sink has volume 1.0 (= 10).
Volumes == {8, 10}

\* (volume, paused) of the sink at the start of a run with concurrent commands
RaceSinkStates == {[volume |-> 8, paused |-> TRUE], [volume |-> 10, paused |-> FALSE]}

None == "None"

\* Arguments (device_name, current_time: Option<f32>) of set_audio_device
SetAudioDeviceArgs ==
    {[device_name |-> "Speakers",   current_time |-> None],
     [device_name |-> "Headphones", current_time |-> "30.0"],
     [device_name |-> "Ghost",      current_time |-> None]}

\* Arguments (enabled, current_time: Option<f32>) of toggle_exclusive_mode
ToggleExclusiveModeArgs ==
    {[enabled |-> TRUE,  current_time |-> "12.5"],
     [enabled |-> FALSE, current_time |-> None]}

\* Option<String> values of current_path
Paths == {None, "song.mp3"}

\* What the host audio subsystem can do with a device:
\*   absent   - not enumerated (unplugged)
\*   ok       - default config readable, 256-frame stream and default stream open
\*   nofixed  - default config readable, 256-frame stream refused, default stream opens
\*   noconfig - default_output_config() fails
\*   noopen   - default config readable, no stream can be opened
HwKinds == {"absent", "ok", "nofixed", "noconfig", "noopen"}

\* Host situations a run starts from; every kind of device occurs.
HwProfiles ==
    {[Speakers |-> "ok",       Headphones |-> "nofixed"],
     [Speakers |-> "nofixed",  Headphones |-> "noconfig"],
     [Speakers |-> "absent",   Headphones |-> "ok"],
     [Speakers |-> "noopen",   Headphones |-> "absent"]}

\* Host situations of the runs with concurrent commands: both devices work,
\* or the device that was current at startup has been unplugged.
RaceHwProfiles ==
    {[Speakers |-> "ok",       Headphones |-> "nofixed"],
     [Speakers |-> "absent",   Headphones |-> "ok"]}

VARIABLES
    \* Player State (state.player.*)
    sink,                 \* the installed rodio Sink
    current_device_name,
    current_path,
    exclusive_mode,
    \* host audio subsystem and collaborators
    hw,                   \* capability of every device of the host (fixed in a run)
    cpal_host,            \* the devices as the host enumerates them, and its default
    streams,              \* ids of the leaked OutputStreams (Box::leak), alive
    reloads,              \* the play_track call received from each command
    \* command threads
    pc,                   \* position of every command thread
    call,                 \* command and arguments of the thread
    loc,                  \* local variables of the command
    lock,                 \* owner of every Player State mutex, 0 when free
    result,               \* value returned by the command
    \* history (observation only)
    pre,                  \* Player State when the command was invoked
    solo,                 \* no other command was in flight during this one
    lastRet               \* thread that returned last, 0 once a command starts

player == <<sink, current_device_name, current_path, exclusive_mode>>
env    == <<hw, streams, reloads>>
thr    == <<pc, call, loc, result>>
hist   == <<pre, solo, lastRet>>
vars   == <<sink, current_device_name, current_path, exclusive_mode,
            hw, cpal_host, streams, reloads, pc, call, loc, lock, result,
            pre, solo, lastRet>>

\* ------------------------------------------------------------ data types
\* Sink::try_new(&stream_handle): a fresh rodio Sink on the stream that the
\* handle `h` belongs to (OutputStream::try_from_device gives the pair).
Sink_try_new(id, h) ==
    [id |-> id, stream |-> h.id, dev |-> h.dev, requested |-> h.requested,
     volume |-> 10, paused |-> FALSE, stopped |-> FALSE]

\* Sink::stop()
Sink_stop(s) == [s EXCEPT !.stopped = TRUE]

\* Faulty variant of Sink_restore: the volume is not re-applied.
Sink_restore_PauseOnly(s, v, playing) == [s EXCEPT !.paused = ~playing]

\* Sink::set_volume(v) followed by play() / pause()
Sink_restore(s, v, playing) == [s EXCEPT !.volume = v, !.paused = ~playing]

\* "no sink": the value of a sink variable that is not initialised yet
NoSink == [id |-> -1, stream |-> -1, dev |-> None, requested |-> FALSE,
           volume |-> 0, paused |-> FALSE, stopped |-> FALSE]

\* "no stream": the value of stream_handle before it is assigned
NoStream == [id |-> -1, dev |-> None, requested |-> FALSE, kind |-> None,
             label |-> None]

\* Locals of a command, before they are assigned and after their last use.
\* old_sink is the identity of the sink behind the guard of line 88 / 315,
\* remembered until the command installs its own sink.  exclusive_mode and
\* stream_handle are assigned and used up inside one step where lines 71-81
\* are executed as one step.
NoLoc == [new_sink |-> NoSink, old_sink |-> -1, is_playing |-> FALSE, volume |-> 0,
          current_path |-> None, current_device_name |-> None,
          is_default |-> FALSE, supports_exclusive_mode |-> FALSE,
          exclusive_mode |-> FALSE, stream_handle |-> NoStream]

NoCall == [op |-> None]
NoResult == [status |-> None]
Ok == [status |-> "Ok"]
Err(kind) == [status |-> kind]

PlayerSnapshot ==
    [sink |-> sink, current_device_name |-> current_device_name,
     current_path |-> current_path, exclusive_mode |-> exclusive_mode]

NoPre == [sink |-> NoSink, current_device_name |-> None,
          current_path |-> None, exclusive_mode |-> FALSE]

InFlight(t) == pc[t] \notin {"idle", "done"}

\* --------------------------------------------------- host audio subsystem
\* host.output_devices(): the devices currently enumerated
output_devices == {d \in Devices : hw[d] # "absent"}

\* .find(|d| d.name() == name): the device handle or None
find_device(name) == IF name \in output_devices THEN name ELSE None

\* host.default_output_device().and_then(|d| d.name().ok())
default_output_device ==
    IF hw["Speakers"] # "absent" THEN "Speakers"
    ELSE IF hw["Headphones"] # "absent" THEN "Headphones"
    ELSE None

\* device.default_output_config().is_ok()
default_output_config_ok(d) == hw[d] \in {"ok", "nofixed", "noopen"}

\* device.build_output_stream(&stream_config, ..) with BufferSize::Fixed(256)
\* succeeds (the stream is dropped at once)
build_output_stream_ok(d) == hw[d] = "ok"

\* check_exclusive_mode_support(device)
check_exclusive_mode_support(d) ==
    IF ~default_output_config_ok(d) THEN FALSE
    ELSE build_output_stream_ok(d)

\* OutputStream::try_from_device(device).is_ok()
try_from_device_ok(d) == hw[d] \in {"ok", "nofixed"}

\* Faulty variant of mode_status: the label follows what the probe found.
mode_status_HonoursProbe(exclusive, supports_exclusive) ==
    IF exclusive /\ supports_exclusive THEN "optimized"
    ELSE "standard"

\* mode label computed by create_optimized_output_stream
mode_status(exclusive, supports_exclusive) ==
    IF exclusive /\ supports_exclusive THEN "optimized"
    ELSE IF exclusive /\ ~supports_exclusive THEN "optimized"
    ELSE "standard"

\* create_optimized_output_stream(device, exclusive_mode) for caller t:
\* an error, or the stream that was opened (always the shared default stream)
create_optimized_output_stream(t, d, exclusive) ==
    IF ~default_output_config_ok(d) THEN Err("StreamCreationError")
    ELSE IF ~try_from_device_ok(d) THEN Err("StreamCreationError")
    ELSE [status |-> "Ok",
          stream |-> [id |-> t, dev |-> d, requested |-> exclusive, kind |-> "shared",
                      label |-> mode_status(exclusive, check_exclusive_mode_support(d))]]

\* The stream the player opened at startup, on the host default device.
StartupStream == [id |-> 0, dev |-> "Speakers", requested |-> FALSE,
                  kind |-> "shared", label |-> "standard"]

\* No play_track call received from a command.
NoReload == [path |-> None, at_time |-> None, sink |-> -1]

\* Order in which the host enumerates its devices.
DeviceOrder == <<"Speakers", "Headphones">>

\* cpal::default_host() as the commands that enumerate see it: the devices in
\* enumeration order, each with the name it reports and what it can do, and
\* the index of the default output device (0: the host has none).
HostOf(h) ==
    LET ds == SelectSeq(DeviceOrder, LAMBDA d : h[d] # "absent")
    IN [devices |-> [i \in 1..Len(ds) |-> [name |-> ds[i], kind |-> h[ds[i]]]],
        default |-> IF Len(ds) > 0 THEN 1 ELSE 0]

\* The hosts get_audio_devices is run on: up to MaxAttached devices, each
\* with the name it reports (None: the name cannot be read; two devices may
\* report the same name) and what it can do, any of them the default.
AttachedDevices == [name : Devices \cup {None}, kind : {"ok", "nofixed", "noconfig"}]

Hosts ==
    UNION {[devices : [1..n -> AttachedDevices], default : 0..n] : n \in 0..MaxAttached}

\* The by-name view of a host: .find(|d| d.name() == name) takes the first
\* device that reports the name.
HwOf(host) ==
    [d \in Devices |->
        LET I == {i \in DOMAIN host.devices : host.devices[i].name = d}
        IN IF I = {} THEN "absent"
           ELSE host.devices[CHOOSE i \in I : \A j \in I : i <= j].kind]

\* The Player State mutexes: state.player.<field>.lock()
Locks == {"sink", "current_device_name", "current_path", "exclusive_mode"}

\* ------------------------------------------------------------------ Init
\* The player was started on "Speakers" (the host default then) with a
\* shared stream; since then the user may have changed volume, pause,
\* loaded a track, toggled the preference, and devices may have changed.
InitWith(profiles, sinkStates) ==
    /\ hw \in profiles
    /\ cpal_host = HostOf(hw)
    /\ lock = [m \in Locks |-> 0]
    /\ current_device_name = "Speakers"
    /\ current_path \in Paths
    /\ exclusive_mode \in BOOLEAN
    /\ \E s \in sinkStates :
          sink = [Sink_try_new(0, StartupStream) EXCEPT !.volume = s.volume,
                                                        !.paused = s.paused]
    /\ streams = {StartupStream.id}
    /\ reloads = [t \in Threads |-> NoReload]
    /\ pc = [t \in Threads |-> "idle"]
    /\ call = [t \in Threads |-> NoCall]
    /\ loc = [t \in Threads |-> NoLoc]
    /\ result = [t \in Threads |-> NoResult]
    /\ pre = [t \in Threads |-> NoPre]
    /\ solo = [t \in Threads |-> FALSE]
    /\ lastRet = 0

\* Runs in which commands overlap.
Init == InitWith(RaceHwProfiles, RaceSinkStates)

\* Runs in which one command is in flight at a time.
InitSeq == InitWith(HwProfiles, [volume : Volumes, paused : BOOLEAN])

\* -------------------------------------------------- invocation and return
\* Observations of returned commands, dropped when t is invoked.
Forget(f, t, blank) ==
    [u \in Threads |-> IF u = t \/ pc[u] = "done" THEN blank ELSE f[u]]

\* A command is dispatched on thread t.  Threads are interchangeable, so
\* they are started in index order.  The observations kept about commands
\* that have already returned are dropped.
Invoke(t, c) ==
    /\ pc[t] = "idle"
    /\ \A u \in Threads : u < t => pc[u] # "idle"
    /\ call' = [Forget(call, t, NoCall) EXCEPT ![t] = c]
    /\ pre' = [Forget(pre, t, NoPre) EXCEPT ![t] =
                 IF \A w \in Threads \ {t} : ~InFlight(w) THEN PlayerSnapshot ELSE NoPre]
    /\ solo' = [u \in Threads |->
                 u = t /\ (\A w \in Threads \ {t} : ~InFlight(w))]
    /\ reloads' = Forget(reloads, t, NoReload)

\* The steps below execute every lock scope they contain from lock() to the
\* drop of the guard, so they find and leave all mutexes free; no command
\* changes the host.
LocksFree == UNCHANGED <<lock, cpal_host>>

\* The command c is invoked on t and goes on to the statement at `label`.
Begin(t, c, label) ==
    /\ Invoke(t, c)
    /\ pc' = [pc EXCEPT ![t] = label]
    /\ result' = Forget(result, t, NoResult)
    /\ lastRet' = 0
    /\ LocksFree

\* The command c is invoked on t and returns r in the same step.
BeginReturn(t, c, r) ==
    /\ Invoke(t, c)
    /\ pc' = [pc EXCEPT ![t] = "done"]
    /\ result' = [Forget(result, t, NoResult) EXCEPT ![t] = r]
    /\ lastRet' = t
    /\ UNCHANGED loc
    /\ LocksFree

\* The command of t goes on to the statement at `label`.
Goto(t, label) ==
    /\ pc' = [pc EXCEPT ![t] = label]
    /\ UNCHANGED <<call, result, pre, solo, lastRet>>
    /\ LocksFree

\* The command of t returns r; its locals die.
Return(t, r) ==
    /\ pc' = [pc EXCEPT ![t] = "done"]
    /\ result' = [result EXCEPT ![t] = r]
    /\ loc' = [loc EXCEPT ![t] = NoLoc]
    /\ lastRet' = t
    /\ UNCHANGED <<call, pre, solo>>
    /\ LocksFree

\* ------------------------------------------ playback::play_track (external)
\* super::playback::play_track(app, state, path, current_time): the playback
\* collaborator reloads the track on the installed sink; it may fail.
play_track(t, path, time, ok) ==
    /\ reloads' = [reloads EXCEPT ![t] =
                       [path |-> path, at_time |-> time, sink |-> sink.id]]
    /\ UNCHANGED <<sink, current_device_name, current_path, exclusive_mode>>

\* ------------------------------------------------------- set_audio_device
\* Faulty variant of OpenDevice: an unknown name falls back to the host
\* default device instead of failing.
OpenDevice_FallbackToDefault(t, name, exclusive, listed, created) ==
    LET d == IF find_device(name) = None THEN default_output_device
             ELSE find_device(name)
    IN IF ~listed THEN [status |-> "EnumerationError", leaked |-> {}]
       ELSE IF d = None THEN [status |-> "DeviceNotFound", leaked |-> {}]
       ELSE LET r == create_optimized_output_stream(t, d, exclusive)
            IN IF r.status # "Ok" THEN [status |-> r.status, leaked |-> {}]
               ELSE IF ~created
               THEN [status |-> "SinkCreationError", leaked |-> {r.stream.id}]
               ELSE [status |-> "Ok", leaked |-> {r.stream.id},
                     new_sink |-> Sink_try_new(t, r.stream)]

\* Faulty variant of OpenDevice: the stream is dropped again when the sink
\* cannot be created on it.
OpenDevice_DropsStreamOnSinkFailure(t, name, exclusive, listed, created) ==
    IF ~listed THEN [status |-> "EnumerationError", leaked |-> {}]
    ELSE IF find_device(name) = None THEN [status |-> "DeviceNotFound", leaked |-> {}]
    ELSE LET r == create_optimized_output_stream(t, find_device(name), exclusive)
         IN IF r.status # "Ok" THEN [status |-> r.status, leaked |-> {}]
            ELSE IF ~created
            THEN [status |-> "SinkCreationError", leaked |-> {}]
            ELSE [status |-> "Ok", leaked |-> {r.stream.id},
                  new_sink |-> Sink_try_new(t, r.stream)]

\* lines 63-81 as a function of the outcome of the host calls: the error
\* returned, or Ok with the stream that was created and leaked on the way.
\*   listed  - host.output_devices() succeeded
\*   created - Sink::try_new succeeded
OpenDevice(t, name, exclusive, listed, created) ==
    IF ~listed THEN [status |-> "EnumerationError", leaked |-> {}]
    ELSE IF find_device(name) = None THEN [status |-> "DeviceNotFound", leaked |-> {}]
    ELSE LET r == create_optimized_output_stream(t, find_device(name), exclusive)
         IN IF r.status # "Ok" THEN [status |-> r.status, leaked |-> {}]
            ELSE IF ~created
            THEN [status |-> "SinkCreationError", leaked |-> {r.stream.id}]
            ELSE [status |-> "Ok", leaked |-> {r.stream.id},
                  new_sink |-> Sink_try_new(t, r.stream)]

\* Faulty variant of SetAudioDevice_Open: a failed stream creation resets the
\* exclusive_mode preference to standard.
SetAudioDevice_Open_ResetsPreference(t) ==
    \E a \in SetAudioDeviceArgs, listed \in BOOLEAN, created \in BOOLEAN :
        LET c == [op |-> "set_audio_device", device_name |-> a.device_name,
                  current_time |-> a.current_time]
            o == OpenDevice(t, a.device_name, exclusive_mode, listed, created)
        IN /\ streams' = streams \cup o.leaked
           /\ IF o.status # "Ok"
              THEN BeginReturn(t, c, Err(o.status))
              ELSE /\ Begin(t, c, "sa_snapshot")
                   /\ loc' = [loc EXCEPT ![t].new_sink = o.new_sink]
           /\ exclusive_mode' =
                 IF o.status = "StreamCreationError" THEN FALSE ELSE exclusive_mode
           /\ UNCHANGED <<sink, current_device_name, current_path, hw>>

\* Faulty variant of SetAudioDevice_Open: the old sink is stopped before the
\* new sink is constructed, so a failed construction leaves it stopped.
SetAudioDevice_Open_StopsFirst(t) ==
    \E a \in SetAudioDeviceArgs, listed \in BOOLEAN, created \in BOOLEAN :
        LET c == [op |-> "set_audio_device", device_name |-> a.device_name,
                  current_time |-> a.current_time]
            o == OpenDevice(t, a.device_name, exclusive_mode, listed, created)
        IN /\ streams' = streams \cup o.leaked
           /\ IF o.status # "Ok"
              THEN BeginReturn(t, c, Err(o.status))
              ELSE /\ Begin(t, c, "sa_snapshot")
                   /\ loc' = [loc EXCEPT ![t].new_sink = o.new_sink]
           /\ sink' = IF o.status = "SinkCreationError" THEN Sink_stop(sink) ELSE sink
           /\ UNCHANGED <<current_device_name, current_path, exclusive_mode, hw>>

\* lines 60-81: resolve device_name, read the exclusive_mode preference
\* under its lock, create and leak the stream, create the new sink
SetAudioDevice_Open(t) ==
    \E a \in SetAudioDeviceArgs, listed \in BOOLEAN, created \in BOOLEAN :
        LET c == [op |-> "set_audio_device", device_name |-> a.device_name,
                  current_time |-> a.current_time]
            o == OpenDevice(t, a.device_name, exclusive_mode, listed, created)
        IN /\ streams' = streams \cup o.leaked
           /\ IF o.status # "Ok"
              THEN BeginReturn(t, c, Err(o.status))
              ELSE /\ Begin(t, c, "sa_snapshot")
                   /\ loc' = [loc EXCEPT ![t].new_sink = o.new_sink]
           /\ UNCHANGED <<player, hw>>

\* lines 83-94: snapshot is_playing and volume of the old sink and stop it
\* (sink lock), then snapshot current_path (its lock)
SetAudioDevice_Snapshot(t) ==
    /\ pc[t] = "sa_snapshot"
    /\ loc' = [loc EXCEPT ![t].is_playing = ~sink.paused,
                          ![t].volume = sink.volume,
                          ![t].old_sink = sink.id,
                          ![t].current_path = current_path]
    /\ sink' = Sink_stop(sink)
    /\ Goto(t, "sa_install")
    /\ UNCHANGED <<current_device_name, current_path, exclusive_mode, env>>

\* Faulty variant of SetAudioDevice_Install: the sinks are swapped, the
\* command keeps the replaced sink alive in its local.
SetAudioDevice_Install_KeepsOldSink(t) ==
    /\ pc[t] = "sa_install"
    /\ sink' = loc[t].new_sink
    /\ loc' = [loc EXCEPT ![t].new_sink = sink, ![t].old_sink = NoLoc.old_sink]
    /\ Goto(t, "sa_restore")
    /\ UNCHANGED <<current_device_name, current_path, exclusive_mode, env>>

\* lines 96-100: replace the sink of Player State by the new sink
SetAudioDevice_Install(t) ==
    /\ pc[t] = "sa_install"
    /\ sink' = loc[t].new_sink
    /\ loc' = [loc EXCEPT ![t].new_sink = NoSink, ![t].old_sink = NoLoc.old_sink]
    /\ Goto(t, "sa_restore")
    /\ UNCHANGED <<current_device_name, current_path, exclusive_mode, env>>

\* lines 102-111: re-apply volume and play/pause on the installed sink
SetAudioDevice_Restore(t) ==
    /\ pc[t] = "sa_restore"
    /\ sink' = Sink_restore(sink, loc[t].volume, loc[t].is_playing)
    /\ loc' = [loc EXCEPT ![t].volume = NoLoc.volume, ![t].is_playing = NoLoc.is_playing]
    /\ Goto(t, "sa_name")
    /\ UNCHANGED <<current_device_name, current_path, exclusive_mode, env>>

\* Faulty variant of SetAudioDevice_StoreName: the name is not stored.
SetAudioDevice_StoreName_KeepsName(t) ==
    /\ pc[t] = "sa_name"
    /\ IF loc[t].current_path = None
       THEN Return(t, Ok)
       ELSE /\ Goto(t, "sa_reload")
            /\ UNCHANGED loc
    /\ UNCHANGED <<player, env>>

\* lines 113-124: store the device name; return Ok when no track is loaded
SetAudioDevice_StoreName(t) ==
    /\ pc[t] = "sa_name"
    /\ current_device_name' = call[t].device_name
    /\ IF loc[t].current_path = None
       THEN Return(t, Ok)
       ELSE /\ Goto(t, "sa_reload")
            /\ UNCHANGED loc
    /\ UNCHANGED <<sink, current_path, exclusive_mode, env>>

\* Faulty variant of SetAudioDevice_Reload: a failed reload rolls the device
\* name back to the host default.
SetAudioDevice_Reload_RollsBack(t) ==
    /\ pc[t] = "sa_reload"
    /\ \E ok \in BOOLEAN :
          /\ reloads' = [reloads EXCEPT ![t] =
                [path |-> loc[t].current_path, at_time |-> call[t].current_time,
                 sink |-> sink.id]]
          /\ current_device_name' =
                IF ok \/ default_output_device = None THEN current_device_name
                ELSE default_output_device
          /\ Return(t, IF ok THEN Ok ELSE Err("PlaybackReloadError"))
    /\ UNCHANGED <<sink, current_path, exclusive_mode, hw, streams>>

\* Faulty variant of SetAudioDevice_Reload: the position hint of the caller
\* is not passed on.
SetAudioDevice_Reload_DropsTimeHint(t) ==
    /\ pc[t] = "sa_reload"
    /\ \E ok \in BOOLEAN :
          /\ play_track(t, loc[t].current_path, None, ok)
          /\ Return(t, IF ok THEN Ok ELSE Err("PlaybackReloadError"))
    /\ UNCHANGED <<hw, streams>>

\* lines 116-124: reload the track through play_track, propagate its error
SetAudioDevice_Reload(t) ==
    /\ pc[t] = "sa_reload"
    /\ \E ok \in BOOLEAN :
          /\ play_track(t, loc[t].current_path, call[t].current_time, ok)
          /\ Return(t, IF ok THEN Ok ELSE Err("PlaybackReloadError"))
    /\ UNCHANGED <<hw, streams>>

set_audio_device(t) ==
    \/ SetAudioDevice_Open(t)
    \/ SetAudioDevice_Snapshot(t)
    \/ SetAudioDevice_Install(t)
    \/ SetAudioDevice_Restore(t)
    \/ SetAudioDevice_StoreName(t)
    \/ SetAudioDevice_Reload(t)

\* -------------------------------------------------- toggle_exclusive_mode
\* Faulty variant of ToggleExclusiveMode_Check: no early return when the
\* preference already has the requested value.
ToggleExclusiveMode_Check_NoEarlyReturn(t) ==
    \E a \in ToggleExclusiveModeArgs :
        LET c == [op |-> "toggle_exclusive_mode", enabled |-> a.enabled,
                  current_time |-> a.current_time]
        IN /\ Begin(t, c, "te_store")
           /\ UNCHANGED <<loc, player, hw, streams>>

\* lines 273-281: compare the stored preference with `enabled`
ToggleExclusiveMode_Check(t) ==
    \E a \in ToggleExclusiveModeArgs :
        LET c == [op |-> "toggle_exclusive_mode", enabled |-> a.enabled,
                  current_time |-> a.current_time]
        IN /\ IF exclusive_mode = a.enabled
              THEN BeginReturn(t, c, Ok)
              ELSE /\ Begin(t, c, "te_store")
                   /\ UNCHANGED loc
           /\ UNCHANGED <<player, hw, streams>>

\* Faulty variant of ToggleExclusiveMode_Store: the stream is rebuilt also
\* when no track is loaded.
ToggleExclusiveMode_Store_AlwaysRebuilds(t) ==
    /\ pc[t] = "te_store"
    /\ exclusive_mode' = call[t].enabled
    /\ loc' = [loc EXCEPT ![t].current_path = current_path]
    /\ Goto(t, "te_open")
    /\ UNCHANGED <<sink, current_device_name, current_path, env>>

\* lines 283-288, 342-346: store the new preference (its lock), read
\* current_path (its lock); nothing loaded: return Ok
ToggleExclusiveMode_Store(t) ==
    /\ pc[t] = "te_store"
    /\ exclusive_mode' = call[t].enabled
    /\ IF current_path = None
       THEN Return(t, Ok)
       ELSE /\ loc' = [loc EXCEPT ![t].current_path = current_path]
            /\ Goto(t, "te_open")
    /\ UNCHANGED <<sink, current_device_name, current_path, env>>

\* Faulty variant of ToggleExclusiveMode_Open: the stream is rebuilt on the
\* host default device.
ToggleExclusiveMode_Open_UsesDefaultDevice(t) ==
    /\ pc[t] = "te_open"
    /\ \E listed \in BOOLEAN, created \in BOOLEAN :
          LET o == OpenDevice(t, default_output_device, call[t].enabled, listed, created)
          IN /\ streams' = streams \cup o.leaked
             /\ IF o.status # "Ok"
                THEN Return(t, Err(o.status))
                ELSE /\ loc' = [loc EXCEPT ![t].new_sink = o.new_sink]
                     /\ Goto(t, "te_snapshot")
    /\ UNCHANGED <<player, hw, reloads>>

\* lines 291-309: read current_device_name under its lock, resolve that
\* device, create and leak the stream, create the new sink
ToggleExclusiveMode_Open(t) ==
    /\ pc[t] = "te_open"
    /\ \E listed \in BOOLEAN, created \in BOOLEAN :
          LET o == OpenDevice(t, current_device_name, call[t].enabled, listed, created)
          IN /\ streams' = streams \cup o.leaked
             /\ IF o.status # "Ok"
                THEN Return(t, Err(o.status))
                ELSE /\ loc' = [loc EXCEPT ![t].new_sink = o.new_sink]
                     /\ Goto(t, "te_snapshot")
    /\ UNCHANGED <<player, hw, reloads>>

\* lines 311-319: snapshot is_playing and volume of the old sink, stop it
ToggleExclusiveMode_Snapshot(t) ==
    /\ pc[t] = "te_snapshot"
    /\ loc' = [loc EXCEPT ![t].is_playing = ~sink.paused,
                          ![t].volume = sink.volume,
                          ![t].old_sink = sink.id]
    /\ sink' = Sink_stop(sink)
    /\ Goto(t, "te_install")
    /\ UNCHANGED <<current_device_name, current_path, exclusive_mode, env>>

\* lines 321-325: replace the sink of Player State by the new sink
ToggleExclusiveMode_Install(t) ==
    /\ pc[t] = "te_install"
    /\ sink' = loc[t].new_sink
    /\ loc' = [loc EXCEPT ![t].new_sink = NoSink, ![t].old_sink = NoLoc.old_sink]
    /\ Goto(t, "te_restore")
    /\ UNCHANGED <<current_device_name, current_path, exclusive_mode, env>>

\* lines 327-336: re-apply volume and play/pause on the installed sink
ToggleExclusiveMode_Restore(t) ==
    /\ pc[t] = "te_restore"
    /\ sink' = Sink_restore(sink, loc[t].volume, loc[t].is_playing)
    /\ loc' = [loc EXCEPT ![t].volume = NoLoc.volume, ![t].is_playing = NoLoc.is_playing]
    /\ Goto(t, "te_reload")
    /\ UNCHANGED <<current_device_name, current_path, exclusive_mode, env>>

\* lines 338-346: reload the track through play_track, propagate its error
ToggleExclusiveMode_Reload(t) ==
    /\ pc[t] = "te_reload"
    /\ \E ok \in BOOLEAN :
          /\ play_track(t, loc[t].current_path, call[t].current_time, ok)
          /\ Return(t, IF ok THEN Ok ELSE Err("PlaybackReloadError"))
    /\ UNCHANGED <<hw, streams>>

toggle_exclusive_mode(t) ==
    \/ ToggleExclusiveMode_Check(t)
    \/ ToggleExclusiveMode_Store(t)
    \/ ToggleExclusiveMode_Open(t)
    \/ ToggleExclusiveMode_Snapshot(t)
    \/ ToggleExclusiveMode_Install(t)
    \/ ToggleExclusiveMode_Restore(t)
    \/ ToggleExclusiveMode_Reload(t)

\* ----------------------------------------------------- get_exclusive_mode
\* lines 350-353
get_exclusive_mode(t) ==
    /\ BeginReturn(t, [op |-> "get_exclusive_mode"],
                   [status |-> "Ok", value |-> exclusive_mode])
    /\ UNCHANGED <<player, hw, streams>>

\* ----------------------------------------------- get_current_audio_device
\* Faulty variant of AudioDeviceInfo: the mode label is "optimized" only when
\* the probe found the device able to open the 256-frame stream.
AudioDeviceInfo_HonoursProbe(name, is_default, supports, is_exclusive_mode) ==
    [name |-> name,
     is_default |-> is_default,
     supports_exclusive_mode |-> supports,
     is_exclusive_mode |-> is_exclusive_mode,
     audio_mode_status |-> IF is_exclusive_mode /\ supports THEN "optimized"
                           ELSE "standard"]

\* The AudioDeviceInfo built at lines 378-392.
AudioDeviceInfo(name, is_default, supports, is_exclusive_mode) ==
    [name |-> name,
     is_default |-> is_default,
     supports_exclusive_mode |-> supports,
     is_exclusive_mode |-> is_exclusive_mode,
     audio_mode_status |-> IF is_exclusive_mode THEN "optimized" ELSE "standard"]

\* Faulty variant of GetCurrentAudioDevice_Resolve: the stream the probe
\* opened is kept open.
GetCurrentAudioDevice_Resolve_KeepsProbeStream(t) ==
    \E listed \in BOOLEAN :
        LET c == [op |-> "get_current_audio_device"]
        IN /\ IF ~listed
              THEN BeginReturn(t, c, Err("EnumerationError")) /\ UNCHANGED streams
              ELSE IF find_device(current_device_name) = None
              THEN BeginReturn(t, c, Err("DeviceNotFound")) /\ UNCHANGED streams
              ELSE /\ Begin(t, c, "gc_exclusive")
                   /\ streams' = streams \cup
                         IF check_exclusive_mode_support(find_device(current_device_name))
                         THEN {t} ELSE {}
                   /\ loc' = [loc EXCEPT
                          ![t].current_device_name = current_device_name,
                          ![t].is_default = (default_output_device = current_device_name),
                          ![t].supports_exclusive_mode =
                              check_exclusive_mode_support(find_device(current_device_name))]
           /\ UNCHANGED <<player, hw>>

\* lines 357-375: read current_device_name under its lock, query the host
\* default, resolve the device and probe it
GetCurrentAudioDevice_Resolve(t) ==
    \E listed \in BOOLEAN :
        LET c == [op |-> "get_current_audio_device"]
        IN /\ IF ~listed
              THEN BeginReturn(t, c, Err("EnumerationError"))
              ELSE IF find_device(current_device_name) = None
              THEN BeginReturn(t, c, Err("DeviceNotFound"))
              ELSE /\ Begin(t, c, "gc_exclusive")
                   /\ loc' = [loc EXCEPT
                          ![t].current_device_name = current_device_name,
                          ![t].is_default = (default_output_device = current_device_name),
                          ![t].supports_exclusive_mode =
                              check_exclusive_mode_support(find_device(current_device_name))]
           /\ UNCHANGED <<player, hw, streams>>

\* lines 376-392: read the preference, derive the mode label, build the info
GetCurrentAudioDevice_ReadExclusive(t) ==
    /\ pc[t] = "gc_exclusive"
    /\ Return(t, [status |-> "Ok",
                  value |-> AudioDeviceInfo(loc[t].current_device_name,
                                            loc[t].is_default,
                                            loc[t].supports_exclusive_mode,
                                            exclusive_mode)])
    /\ UNCHANGED <<player, env>>

get_current_audio_device(t) ==
    \/ GetCurrentAudioDevice_Resolve(t)
    \/ GetCurrentAudioDevice_ReadExclusive(t)

\* ------------------------------------------------------ get_audio_devices
\* check_exclusive_mode_support(&device) for a device of the enumeration
check_exclusive_mode_support_of(device) ==
    IF device.kind \notin {"ok", "nofixed", "noopen"} THEN FALSE
    ELSE device.kind = "ok"

\* lines 30-33: host.default_output_device().and_then(|d| d.name().ok())
default_device_name ==
    IF cpal_host.default = 0 THEN None
    ELSE cpal_host.devices[cpal_host.default].name

\* lines 36-53: one descriptor per enumerated device whose name can be read
device_infos ==
    LET named == SelectSeq(cpal_host.devices, LAMBDA d : d.name # None)
    IN [i \in 1..Len(named) |->
           AudioDeviceInfo(named[i].name,
                           default_device_name # None /\ default_device_name = named[i].name,
                           check_exclusive_mode_support_of(named[i]),
                           FALSE)]

\* lines 28-56
get_audio_devices(t) ==
    /\ \E listed \in BOOLEAN :
          BeginReturn(t, [op |-> "get_audio_devices"],
                      IF listed THEN [status |-> "Ok", value |-> device_infos]
                      ELSE Err("EnumerationError"))
    /\ UNCHANGED <<player, hw, streams>>

Command(t) ==
    \/ set_audio_device(t)
    \/ toggle_exclusive_mode(t)
    \/ get_exclusive_mode(t)
    \/ get_current_audio_device(t)

Next == \E t \in Threads : Command(t)

\* Commands dispatched concurrently, each on its own thread.
Spec == Init /\ [][Next]_vars

\* A command is dispatched only when no other command is in flight.
NextSeq ==
    \E t \in Threads :
        /\ \A u \in Threads \ {t} : ~InFlight(u)
        /\ Command(t)

SpecSeq == InitSeq /\ [][NextSeq]_vars

\* Runs of get_audio_devices on any host.
InitList ==
    /\ cpal_host \in Hosts
    /\ hw = HwOf(cpal_host)
    /\ current_device_name = "Speakers"
    /\ current_path = None
    /\ exclusive_mode = FALSE
    /\ sink = Sink_try_new(0, StartupStream)
    /\ streams = {StartupStream.id}
    /\ lock = [m \in Locks |-> 0]
    /\ reloads = [t \in Threads |-> NoReload]
    /\ pc = [t \in Threads |-> "idle"]
    /\ call = [t \in Threads |-> NoCall]
    /\ loc = [t \in Threads |-> NoLoc]
    /\ result = [t \in Threads |-> NoResult]
    /\ pre = [t \in Threads |-> NoPre]
    /\ solo = [t \in Threads |-> FALSE]
    /\ lastRet = 0

NextList == \E t \in Threads : get_audio_devices(t)

SpecList == InitList /\ [][NextList]_vars

\* ================================================== statement-level steps
\* The same four commands with every lock() and every drop of a guard as a
\* step of its own.  A label names the source line the thread is at:
\* "<c><n>_lock" - waiting for the mutex that line n locks; "<c><n>" - inside
\* the guard scope (or the call) that starts at line n.

\* state.player.<field>.lock(): <<label of the lock(), mutex, label inside>>
LockSites ==
    {<<"sa71_lock",  "exclusive_mode",      "sa71">>,
     <<"sa88_lock",  "sink",                "sa88">>,
     <<"sa94_lock",  "current_path",        "sa94">>,
     <<"sa98_lock",  "sink",                "sa98">>,
     <<"sa104_lock", "sink",                "sa104">>,
     <<"sa114_lock", "current_device_name", "sa114">>,
     <<"te277_lock", "exclusive_mode",      "te277">>,
     <<"te284_lock", "exclusive_mode",      "te284">>,
     <<"te287_lock", "current_path",        "te287">>,
     <<"te292_lock", "current_device_name", "te292">>,
     <<"te315_lock", "sink",                "te315">>,
     <<"te323_lock", "sink",                "te323">>,
     <<"te329_lock", "sink",                "te329">>,
     <<"ge352_lock", "exclusive_mode",      "ge352">>,
     <<"gc358_lock", "current_device_name", "gc358">>,
     <<"gc376_lock", "exclusive_mode",      "gc376">>}

\* Labels at which the thread is inside a blocking external call: device
\* enumeration, default-device query, probe, stream creation, sink
\* construction, play_track.
ExternalCallSites ==
    {"sa65", "sa75", "sa81", "sa120",
     "te297", "te303", "te309", "te339",
     "gc362", "gc370", "gc375"}

\* The mutexes thread t holds.
HeldBy(t) == {m \in Locks : lock[m] = t}

\* The thread goes on to `label`; mutexes are dealt with by the caller.
Jump(t, label) ==
    /\ pc' = [pc EXCEPT ![t] = label]
    /\ UNCHANGED <<call, result, pre, solo, lastRet, cpal_host>>

\* The command of t returns r with the mutexes as the caller leaves them.
Leave(t, r) ==
    /\ pc' = [pc EXCEPT ![t] = "done"]
    /\ result' = [result EXCEPT ![t] = r]
    /\ loc' = [loc EXCEPT ![t] = NoLoc]
    /\ lastRet' = t
    /\ UNCHANGED <<call, pre, solo, cpal_host>>

\* The guard of mutex m, held by t, is dropped.
Unlock(t, m) ==
    /\ lock[m] = t
    /\ lock' = [lock EXCEPT ![m] = 0]

\* Mutex::lock(): blocks until the mutex is free, then t owns it.
Lock(t) ==
    \E e \in LockSites :
        /\ pc[t] = e[1]
        /\ lock[e[2]] = 0
        /\ lock' = [lock EXCEPT ![e[2]] = t]
        /\ Jump(t, e[3])
        /\ UNCHANGED <<player, env, loc>>

\* ---- set_audio_device
\* line 60: the command is dispatched
set_audio_device_L60(t) ==
    \E a \in SetAudioDeviceArgs :
        /\ Begin(t, [op |-> "set_audio_device", device_name |-> a.device_name,
                     current_time |-> a.current_time], "sa65")
        /\ UNCHANGED <<loc, player, hw, streams>>

\* lines 63-68: enumerate the output devices and find device_name
set_audio_device_L65(t) ==
    /\ pc[t] = "sa65"
    /\ \E listed \in BOOLEAN :
          IF ~listed THEN Return(t, Err("EnumerationError"))
          ELSE IF find_device(call[t].device_name) = None
          THEN Return(t, Err("DeviceNotFound"))
          ELSE Goto(t, "sa71_lock") /\ UNCHANGED loc
    /\ UNCHANGED <<player, env>>

\* Faulty variant of set_audio_device_L71: the guard of exclusive_mode is
\* bound to a local and lives on.
set_audio_device_L71_KeepsGuard(t) ==
    /\ pc[t] = "sa71"
    /\ loc' = [loc EXCEPT ![t].exclusive_mode = exclusive_mode]
    /\ UNCHANGED lock
    /\ Jump(t, "sa75")
    /\ UNCHANGED <<player, env>>

\* line 71: read the preference, the temporary guard is dropped
set_audio_device_L71(t) ==
    /\ pc[t] = "sa71"
    /\ loc' = [loc EXCEPT ![t].exclusive_mode = exclusive_mode]
    /\ Unlock(t, "exclusive_mode")
    /\ Jump(t, "sa75")
    /\ UNCHANGED <<player, env>>

\* lines 75-78: create the stream and leak it
set_audio_device_L75(t) ==
    /\ pc[t] = "sa75"
    /\ LET r == create_optimized_output_stream(t, find_device(call[t].device_name),
                                               loc[t].exclusive_mode)
       IN IF r.status # "Ok"
          THEN Return(t, r) /\ UNCHANGED streams
          ELSE /\ streams' = streams \cup {r.stream.id}
               /\ loc' = [loc EXCEPT ![t].stream_handle = r.stream,
                                     ![t].exclusive_mode = NoLoc.exclusive_mode]
               /\ Goto(t, "sa81")
    /\ UNCHANGED <<player, hw, reloads>>

\* line 81: create the new sink
set_audio_device_L81(t) ==
    /\ pc[t] = "sa81"
    /\ \E created \in BOOLEAN :
          IF ~created THEN Return(t, Err("SinkCreationError"))
          ELSE /\ loc' = [loc EXCEPT ![t].new_sink = Sink_try_new(t, loc[t].stream_handle),
                                     ![t].stream_handle = NoStream]
               /\ Goto(t, "sa88_lock")
    /\ UNCHANGED <<player, env>>

\* Faulty variant of set_audio_device_L88: the guard old_sink outlives the
\* block of lines 87-92.
set_audio_device_L88_KeepsGuard(t) ==
    /\ pc[t] = "sa88"
    /\ loc' = [loc EXCEPT ![t].is_playing = ~sink.paused,
                          ![t].volume = sink.volume,
                          ![t].old_sink = sink.id]
    /\ sink' = Sink_stop(sink)
    /\ UNCHANGED lock
    /\ Jump(t, "sa94_lock")
    /\ UNCHANGED <<current_device_name, current_path, exclusive_mode, env>>

\* lines 87-92: snapshot and stop the old sink under the sink guard
set_audio_device_L88(t) ==
    /\ pc[t] = "sa88"
    /\ loc' = [loc EXCEPT ![t].is_playing = ~sink.paused,
                          ![t].volume = sink.volume,
                          ![t].old_sink = sink.id]
    /\ sink' = Sink_stop(sink)
    /\ Unlock(t, "sink")
    /\ Jump(t, "sa94_lock")
    /\ UNCHANGED <<current_device_name, current_path, exclusive_mode, env>>

\* line 94: clone current_path
set_audio_device_L94(t) ==
    /\ pc[t] = "sa94"
    /\ loc' = [loc EXCEPT ![t].current_path = current_path]
    /\ Unlock(t, "current_path")
    /\ Jump(t, "sa98_lock")
    /\ UNCHANGED <<player, env>>

\* lines 97-100: install the new sink
set_audio_device_L98(t) ==
    /\ pc[t] = "sa98"
    /\ sink' = loc[t].new_sink
    /\ loc' = [loc EXCEPT ![t].new_sink = NoSink, ![t].old_sink = NoLoc.old_sink]
    /\ Unlock(t, "sink")
    /\ Jump(t, "sa104_lock")
    /\ UNCHANGED <<current_device_name, current_path, exclusive_mode, env>>

\* lines 103-111: re-apply volume and play/pause
set_audio_device_L104(t) ==
    /\ pc[t] = "sa104"
    /\ sink' = Sink_restore(sink, loc[t].volume, loc[t].is_playing)
    /\ loc' = [loc EXCEPT ![t].volume = NoLoc.volume, ![t].is_playing = NoLoc.is_playing]
    /\ Unlock(t, "sink")
    /\ Jump(t, "sa114_lock")
    /\ UNCHANGED <<current_device_name, current_path, exclusive_mode, env>>

\* lines 114-124: store the device name; Ok(()) when no track is loaded
set_audio_device_L114(t) ==
    /\ pc[t] = "sa114"
    /\ current_device_name' = call[t].device_name
    /\ Unlock(t, "current_device_name")
    /\ IF loc[t].current_path = None
       THEN Leave(t, Ok)
       ELSE Jump(t, "sa120") /\ UNCHANGED loc
    /\ UNCHANGED <<sink, current_path, exclusive_mode, env>>

\* lines 117-124: play_track
set_audio_device_L120(t) ==
    /\ pc[t] = "sa120"
    /\ \E ok \in BOOLEAN :
          /\ play_track(t, loc[t].current_path, call[t].current_time, ok)
          /\ Return(t, IF ok THEN Ok ELSE Err("PlaybackReloadError"))
    /\ UNCHANGED <<hw, streams>>

\* ---- toggle_exclusive_mode
\* line 273: the command is dispatched
toggle_exclusive_mode_L273(t) ==
    \E a \in ToggleExclusiveModeArgs :
        /\ Begin(t, [op |-> "toggle_exclusive_mode", enabled |-> a.enabled,
                     current_time |-> a.current_time], "te277_lock")
        /\ UNCHANGED <<loc, player, hw, streams>>

\* lines 277-281: read the preference; nothing to do when it is `enabled`
toggle_exclusive_mode_L277(t) ==
    /\ pc[t] = "te277"
    /\ Unlock(t, "exclusive_mode")
    /\ IF exclusive_mode = call[t].enabled
       THEN Leave(t, Ok)
       ELSE Jump(t, "te284_lock") /\ UNCHANGED loc
    /\ UNCHANGED <<player, env>>

\* line 284: store the preference
toggle_exclusive_mode_L284(t) ==
    /\ pc[t] = "te284"
    /\ exclusive_mode' = call[t].enabled
    /\ Unlock(t, "exclusive_mode")
    /\ Jump(t, "te287_lock")
    /\ UNCHANGED <<sink, current_device_name, current_path, env, loc>>

\* lines 287-288, 342-346: clone current_path; Ok(()) when no track is loaded
toggle_exclusive_mode_L287(t) ==
    /\ pc[t] = "te287"
    /\ Unlock(t, "current_path")
    /\ IF current_path = None
       THEN Leave(t, Ok)
       ELSE /\ loc' = [loc EXCEPT ![t].current_path = current_path]
            /\ Jump(t, "te292_lock")
    /\ UNCHANGED <<player, env>>

\* line 292: clone current_device_name
toggle_exclusive_mode_L292(t) ==
    /\ pc[t] = "te292"
    /\ loc' = [loc EXCEPT ![t].current_device_name = current_device_name]
    /\ Unlock(t, "current_device_name")
    /\ Jump(t, "te297")
    /\ UNCHANGED <<player, env>>

\* lines 295-300: enumerate the output devices and find the current device
toggle_exclusive_mode_L297(t) ==
    /\ pc[t] = "te297"
    /\ \E listed \in BOOLEAN :
          IF ~listed THEN Return(t, Err("EnumerationError"))
          ELSE IF find_device(loc[t].current_device_name) = None
          THEN Return(t, Err("DeviceNotFound"))
          ELSE Goto(t, "te303") /\ UNCHANGED loc
    /\ UNCHANGED <<player, env>>

\* lines 303-306: create the stream with `enabled` and leak it
toggle_exclusive_mode_L303(t) ==
    /\ pc[t] = "te303"
    /\ LET r == create_optimized_output_stream(t, find_device(loc[t].current_device_name),
                                               call[t].enabled)
       IN IF r.status # "Ok"
          THEN Return(t, r) /\ UNCHANGED streams
          ELSE /\ streams' = streams \cup {r.stream.id}
               /\ loc' = [loc EXCEPT ![t].stream_handle = r.stream,
                                     ![t].current_device_name = NoLoc.current_device_name]
               /\ Goto(t, "te309")
    /\ UNCHANGED <<player, hw, reloads>>

\* line 309: create the new sink
toggle_exclusive_mode_L309(t) ==
    /\ pc[t] = "te309"
    /\ \E created \in BOOLEAN :
          IF ~created THEN Return(t, Err("SinkCreationError"))
          ELSE /\ loc' = [loc EXCEPT ![t].new_sink = Sink_try_new(t, loc[t].stream_handle),
                                     ![t].stream_handle = NoStream]
               /\ Goto(t, "te315_lock")
    /\ UNCHANGED <<player, env>>

\* lines 314-319: snapshot and stop the old sink under the sink guard
toggle_exclusive_mode_L315(t) ==
    /\ pc[t] = "te315"
    /\ loc' = [loc EXCEPT ![t].is_playing = ~sink.paused,
                          ![t].volume = sink.volume,
                          ![t].old_sink = sink.id]
    /\ sink' = Sink_stop(sink)
    /\ Unlock(t, "sink")
    /\ Jump(t, "te323_lock")
    /\ UNCHANGED <<current_device_name, current_path, exclusive_mode, env>>

\* lines 322-325: install the new sink
toggle_exclusive_mode_L323(t) ==
    /\ pc[t] = "te323"
    /\ sink' = loc[t].new_sink
    /\ loc' = [loc EXCEPT ![t].new_sink = NoSink, ![t].old_sink = NoLoc.old_sink]
    /\ Unlock(t, "sink")
    /\ Jump(t, "te329_lock")
    /\ UNCHANGED <<current_device_name, current_path, exclusive_mode, env>>

\* lines 328-336: re-apply volume and play/pause
toggle_exclusive_mode_L329(t) ==
    /\ pc[t] = "te329"
    /\ sink' = Sink_restore(sink, loc[t].volume, loc[t].is_playing)
    /\ loc' = [loc EXCEPT ![t].volume = NoLoc.volume, ![t].is_playing = NoLoc.is_playing]
    /\ Unlock(t, "sink")
    /\ Jump(t, "te339")
    /\ UNCHANGED <<current_device_name, current_path, exclusive_mode, env>>

\* lines 339-346: play_track
toggle_exclusive_mode_L339(t) ==
    /\ pc[t] = "te339"
    /\ \E ok \in BOOLEAN :
          /\ play_track(t, loc[t].current_path, call[t].current_time, ok)
          /\ Return(t, IF ok THEN Ok ELSE Err("PlaybackReloadError"))
    /\ UNCHANGED <<hw, streams>>

\* ---- get_exclusive_mode
\* line 351: the command is dispatched
get_exclusive_mode_L351(t) ==
    /\ Begin(t, [op |-> "get_exclusive_mode"], "ge352_lock")
    /\ UNCHANGED <<loc, player, hw, streams>>

\* line 352: read the preference
get_exclusive_mode_L352(t) ==
    /\ pc[t] = "ge352"
    /\ Unlock(t, "exclusive_mode")
    /\ Leave(t, [status |-> "Ok", value |-> exclusive_mode])
    /\ UNCHANGED <<player, env>>

\* ---- get_current_audio_device
\* line 357: the command is dispatched
get_current_audio_device_L357(t) ==
    /\ Begin(t, [op |-> "get_current_audio_device"], "gc358_lock")
    /\ UNCHANGED <<loc, player, hw, streams>>

\* line 358: clone current_device_name
get_current_audio_device_L358(t) ==
    /\ pc[t] = "gc358"
    /\ loc' = [loc EXCEPT ![t].current_device_name = current_device_name]
    /\ Unlock(t, "current_device_name")
    /\ Jump(t, "gc362")
    /\ UNCHANGED <<player, env>>

\* lines 360-365: query the host default device
get_current_audio_device_L362(t) ==
    /\ pc[t] = "gc362"
    /\ loc' = [loc EXCEPT ![t].is_default =
                   (default_output_device = loc[t].current_device_name)]
    /\ Goto(t, "gc370")
    /\ UNCHANGED <<player, env>>

\* lines 368-373: enumerate the output devices and find the current device
get_current_audio_device_L370(t) ==
    /\ pc[t] = "gc370"
    /\ \E listed \in BOOLEAN :
          IF ~listed THEN Return(t, Err("EnumerationError"))
          ELSE IF find_device(loc[t].current_device_name) = None
          THEN Return(t, Err("DeviceNotFound"))
          ELSE Goto(t, "gc375") /\ UNCHANGED loc
    /\ UNCHANGED <<player, env>>

\* line 375: probe the device
get_current_audio_device_L375(t) ==
    /\ pc[t] = "gc375"
    /\ loc' = [loc EXCEPT ![t].supports_exclusive_mode =
                   check_exclusive_mode_support(find_device(loc[t].current_device_name))]
    /\ Goto(t, "gc376_lock")
    /\ UNCHANGED <<player, env>>

\* lines 376-392: read the preference and build the info
get_current_audio_device_L376(t) ==
    /\ pc[t] = "gc376"
    /\ Unlock(t, "exclusive_mode")
    /\ Leave(t, [status |-> "Ok",
                 value |-> AudioDeviceInfo(loc[t].current_device_name,
                                           loc[t].is_default,
                                           loc[t].supports_exclusive_mode,
                                           exclusive_mode)])
    /\ UNCHANGED <<player, env>>

Statement(t) ==
    \/ Lock(t)
    \/ set_audio_device_L60(t)
    \/ set_audio_device_L65(t)
    \/ set_audio_device_L71(t)
    \/ set_audio_device_L75(t)
    \/ set_audio_device_L81(t)
    \/ set_audio_device_L88(t)
    \/ set_audio_device_L94(t)
    \/ set_audio_device_L98(t)
    \/ set_audio_device_L104(t)
    \/ set_audio_device_L114(t)
    \/ set_audio_device_L120(t)
    \/ toggle_exclusive_mode_L273(t)
    \/ toggle_exclusive_mode_L277(t)
    \/ toggle_exclusive_mode_L284(t)
    \/ toggle_exclusive_mode_L287(t)
    \/ toggle_exclusive_mode_L292(t)
    \/ toggle_exclusive_mode_L297(t)
    \/ toggle_exclusive_mode_L303(t)
    \/ toggle_exclusive_mode_L309(t)
    \/ toggle_exclusive_mode_L315(t)
    \/ toggle_exclusive_mode_L323(t)
    \/ toggle_exclusive_mode_L329(t)
    \/ toggle_exclusive_mode_L339(t)
    \/ get_exclusive_mode_L351(t)
    \/ get_exclusive_mode_L352(t)
    \/ get_current_audio_device_L357(t)
    \/ get_current_audio_device_L358(t)
    \/ get_current_audio_device_L362(t)
    \/ get_current_audio_device_L370(t)
    \/ get_current_audio_device_L375(t)
    \/ get_current_audio_device_L376(t)

\* Host situation of the statement-level runs: a stream opens on Speakers
\* and none on Headphones.
LockHwProfiles ==
    {[Speakers |-> "ok",      Headphones |-> "noopen"]}

InitLock == InitWith(LockHwProfiles, {[volume |-> 8, paused |-> TRUE]})

NextLock == \E t \in Threads : Statement(t)

\* Commands dispatched concurrently, one step per statement.
SpecLock == InitLock /\ [][NextLock]_vars

\* A command that has been dispatched takes its next step: an external call
\* returns, a lock() on a free mutex succeeds, a statement is executed.
Progress(t) == InFlight(t) /\ Statement(t)

\* The statement-level runs in which every thread is scheduled fairly and
\* every external call returns.
SpecLive == SpecLock /\ \A t \in Threads : WF_vars(Progress(t))

TypeOK ==
    /\ sink.id \in 0..NumThreads
    /\ current_device_name \in DeviceNames
    /\ exclusive_mode \in BOOLEAN
    /\ \A t \in Threads : result[t].status \in
          {None, "Ok", "EnumerationError", "DeviceNotFound", "StreamCreationError",
           "SinkCreationError", "PlaybackReloadError"}

\* ================================================================ claims
\* The state is exactly the one in which the command of t returned, and no
\* other command was in flight between its invocation and its return: pre[t]
\* is the state before the call and the current state the one after it.
Quiet(t) == lastRet = t /\ solo[t]

Is(t, op) == call[t].op = op

\* The command of t created no stream and issued no play_track call.
NoStreamNoReload(t) == t \notin streams /\ reloads[t] = NoReload

\* C1: set_audio_device with a device_name that matches no enumerated output
\* device returns the device-not-found error and leaves sink (identity,
\* volume, paused, stopped), current_device_name, current_path and
\* exclusive_mode as they were; no stream is created, play_track is not called.
C1_UnknownDeviceLeavesState ==
    \A t \in Threads :
        (/\ Quiet(t)
         /\ Is(t, "set_audio_device")
         /\ call[t].device_name \notin output_devices
         /\ result[t].status # "EnumerationError")
        => /\ result[t].status = "DeviceNotFound"
           /\ PlayerSnapshot = pre[t]
           /\ NoStreamNoReload(t)

C1_Witness ==
    \E t \in Threads :
        /\ Quiet(t)
        /\ Is(t, "set_audio_device")
        /\ call[t].device_name \notin output_devices
        /\ result[t].status = "DeviceNotFound"
        /\ pre[t].current_path # None

\* C2: when a set_audio_device(d, _) that ran alone returns Ok,
\* current_device_name is d; and a get_current_audio_device that ran alone
\* and returns an info returns the name current_device_name holds, so the
\* get that follows the switch returns d.
C2_SwitchSetsCurrentDevice ==
    \A t \in Threads :
        /\ (Quiet(t) /\ Is(t, "set_audio_device") /\ result[t].status = "Ok")
           => current_device_name = call[t].device_name
        /\ (Quiet(t) /\ Is(t, "get_current_audio_device") /\ result[t].status = "Ok")
           => /\ result[t].value.name = pre[t].current_device_name
              /\ result[t].value.name = current_device_name

\* get_current_audio_device returned "Headphones": a switch away from the
\* startup device succeeded before it.
C2_Witness ==
    \E t \in Threads :
        /\ Quiet(t)
        /\ Is(t, "get_current_audio_device")
        /\ result[t].status = "Ok"
        /\ result[t].value.name = "Headphones"

\* The new sink of t is installed and volume / play-pause were re-applied,
\* and play_track has not run yet.
Restored(t) ==
    \/ pc[t] \in {"sa_name", "sa_reload", "te_reload"}
    \/ pc[t] = "done" /\ lastRet = t /\ Is(t, "set_audio_device")
         /\ result[t].status = "Ok" /\ reloads[t] = NoReload

\* C3: a set_audio_device or a rebuilding toggle_exclusive_mode that runs
\* alone and completes the sink replacement leaves the newly installed sink
\* with the volume and the paused flag of the old sink before the call.
C3_RebuildKeepsVolumeAndPause ==
    \A t \in Threads :
        (solo[t] /\ Restored(t))
        => /\ sink.id = t
           /\ sink.volume = pre[t].sink.volume
           /\ sink.paused = pre[t].sink.paused

\* A rebuilding toggle_exclusive_mode, run alone, has replaced the sink that
\* an earlier set_audio_device had installed on Headphones from a non-default
\* volume and the paused state; play_track has not run yet.
C3_Witness ==
    \E t \in Threads :
        /\ solo[t]
        /\ Is(t, "toggle_exclusive_mode")
        /\ pc[t] = "te_reload"
        /\ pre[t].sink.id \in Threads \ {t}
        /\ pre[t].sink.dev = "Headphones"
        /\ pre[t].sink.volume = 8
        /\ pre[t].sink.paused
        /\ sink.id = t
        /\ sink.volume = 8
        /\ sink.paused

\* C4: when the stream cannot be created in set_audio_device (config
\* unreadable or stream cannot be opened) the command returns the error and
\* Player State is untouched: the old sink is installed and not stopped,
\* current_device_name, current_path and exclusive_mode are unchanged.
C4_StreamFailureLeavesState ==
    \A t \in Threads :
        (Quiet(t) /\ Is(t, "set_audio_device") /\ result[t].status = "StreamCreationError")
        => /\ PlayerSnapshot = pre[t]
           /\ ~sink.stopped
           /\ NoStreamNoReload(t)

C4_Witness ==
    \E t \in Threads :
        /\ Quiet(t)
        /\ Is(t, "set_audio_device")
        /\ result[t].status = "StreamCreationError"
        /\ hw[call[t].device_name] \in {"noconfig", "noopen"}
        /\ pre[t].exclusive_mode

\* C5 as stated: when Sink::try_new fails in set_audio_device after the
\* stream was created, the old sink remains installed and is stopped, and
\* current_device_name is unchanged.
C5_Original_OldSinkStopped ==
    \A t \in Threads :
        (Quiet(t) /\ Is(t, "set_audio_device") /\ result[t].status = "SinkCreationError")
        => /\ sink.id = pre[t].sink.id
           /\ sink.stopped
           /\ current_device_name = pre[t].current_device_name

\* C5 (amended): when Sink::try_new fails in set_audio_device after the
\* stream was created (and leaked), the command returns the sink-creation
\* error and Player State is as before the call: the old sink remains
\* installed and is NOT stopped, it keeps volume and paused flag, and
\* current_device_name is unchanged.
C5_SinkFailureLeavesOldSinkPlaying ==
    \A t \in Threads :
        (Quiet(t) /\ Is(t, "set_audio_device") /\ result[t].status = "SinkCreationError")
        => /\ PlayerSnapshot = pre[t]
           /\ ~sink.stopped
           /\ t \in streams
           /\ reloads[t] = NoReload

C5_Witness ==
    \E t \in Threads :
        /\ Quiet(t)
        /\ Is(t, "set_audio_device")
        /\ result[t].status = "SinkCreationError"
        /\ call[t].device_name # pre[t].current_device_name
        /\ t \in streams

\* C6: when play_track fails at the end of set_audio_device the error is
\* returned and the switch stays committed: the new sink is installed with
\* the re-applied volume and play/pause state and current_device_name is the
\* target; nothing is rolled back.
C6_ReloadFailureKeepsSwitch ==
    \A t \in Threads :
        (Quiet(t) /\ Is(t, "set_audio_device") /\ result[t].status = "PlaybackReloadError")
        => /\ sink.id = t
           /\ sink.dev = call[t].device_name
           /\ ~sink.stopped
           /\ sink.volume = pre[t].sink.volume
           /\ sink.paused = pre[t].sink.paused
           /\ current_device_name = call[t].device_name
           /\ current_path = pre[t].current_path
           /\ exclusive_mode = pre[t].exclusive_mode
           /\ reloads[t].sink = t

C6_Witness ==
    \E t \in Threads :
        /\ Quiet(t)
        /\ Is(t, "set_audio_device")
        /\ result[t].status = "PlaybackReloadError"
        /\ call[t].device_name # pre[t].current_device_name
        /\ pre[t].sink.volume = 8
        /\ pre[t].sink.paused

\* C7: toggle_exclusive_mode(x, _) called when the stored preference is x
\* returns Ok at once and rebuilds nothing: no stream or sink is created,
\* the installed sink is the same object and is not stopped, play_track is
\* not called and the four Player State fields are unchanged.
C7_ToggleSameValueIsNoop ==
    \A t \in Threads :
        (solo[t] /\ Is(t, "toggle_exclusive_mode")
                 /\ call[t].enabled = pre[t].exclusive_mode)
        => /\ pc[t] = "done"
           /\ result[t].status = "Ok"
           /\ loc[t].new_sink = NoSink
           /\ NoStreamNoReload(t)
           /\ lastRet = t => (PlayerSnapshot = pre[t] /\ ~sink.stopped)

\* The no-op toggle ran while a track was loaded.
C7_Witness ==
    \E t \in Threads :
        /\ Quiet(t)
        /\ Is(t, "toggle_exclusive_mode")
        /\ call[t].enabled = pre[t].exclusive_mode
        /\ pre[t].current_path # None
        /\ result[t].status = "Ok"

\* C8: toggle_exclusive_mode(x, _) called when the preference differs from
\* x and no track is loaded sets exclusive_mode to x and changes nothing
\* else: sink not replaced or stopped, no stream created,
\* current_device_name unchanged, no play_track call; and a
\* get_exclusive_mode returns the stored preference, so x afterwards.
C8_ToggleWithoutTrackSetsFlagOnly ==
    \A t \in Threads :
        /\ (solo[t] /\ Is(t, "toggle_exclusive_mode")
                    /\ call[t].enabled # pre[t].exclusive_mode
                    /\ pre[t].current_path = None)
           => /\ pc[t] \in {"te_store", "done"}
              /\ loc[t].new_sink = NoSink
              /\ NoStreamNoReload(t)
              /\ Quiet(t) => /\ result[t].status = "Ok"
                             /\ exclusive_mode = call[t].enabled
                             /\ PlayerSnapshot =
                                  [pre[t] EXCEPT !.exclusive_mode = call[t].enabled]
        /\ (Quiet(t) /\ Is(t, "get_exclusive_mode"))
           => /\ result[t].status = "Ok"
              /\ result[t].value = pre[t].exclusive_mode
              /\ result[t].value = exclusive_mode

C8_Witness ==
    \E t \in Threads :
        /\ Quiet(t)
        /\ Is(t, "toggle_exclusive_mode")
        /\ call[t].enabled # pre[t].exclusive_mode
        /\ pre[t].current_path = None
        /\ exclusive_mode = call[t].enabled
        /\ call[t].current_time = "12.5"

\* C9 as stated: in every reachable state, also in the middle of a
\* set_audio_device, the installed sink is bound to a stream of the device
\* that current_device_name names.
C9_SinkAndDeviceNameAgree == sink.dev = current_device_name

\* The Player State a set_audio_device(target, _) of command `who` produces
\* from the state st when it runs alone and succeeds.
SwitchedFrom(st, who, target) ==
    [sink |-> [id |-> who, stream |-> who, dev |-> target,
               requested |-> st.exclusive_mode,
               volume |-> st.sink.volume, paused |-> st.sink.paused,
               stopped |-> FALSE],
     current_device_name |-> target,
     current_path |-> st.current_path,
     exclusive_mode |-> st.exclusive_mode]

\* t and u are two overlapping set_audio_device commands, the only commands
\* of the run that are not forgotten; both returned Ok.  t was invoked first.
TwoSwitchesDone(t, u) ==
    /\ t # u
    /\ pc[t] = "done" /\ pc[u] = "done"
    /\ Is(t, "set_audio_device") /\ Is(u, "set_audio_device")
    /\ result[t].status = "Ok" /\ result[u].status = "Ok"
    /\ pre[t] # NoPre /\ pre[u] = NoPre
    /\ \A w \in Threads \ {t, u} : call[w] = NoCall /\ ~InFlight(w)

\* C10 as stated: two concurrent set_audio_device commands both complete and
\* the final Player State is the one that running them one after the other,
\* in one of the two orders, produces.
C10_ConcurrentSwitchesSerialize ==
    \A t, u \in Threads :
        TwoSwitchesDone(t, u)
        => PlayerSnapshot \in
             {SwitchedFrom(SwitchedFrom(pre[t], t, call[t].device_name),
                           u, call[u].device_name),
              SwitchedFrom(SwitchedFrom(pre[t], u, call[u].device_name),
                           t, call[t].device_name)}

\* The sinks an operation has constructed and not installed yet.
PendingSinks == {loc[t].new_sink : t \in Threads} \ {NoSink}

\* The sink objects that exist: the installed one and the pending ones (the
\* assignment of line 99 / 324 drops the sink it overwrites).
LiveSinks == {sink} \cup PendingSinks

\* The sinks that are not stopped or dropped.
ActiveSinks == {s \in LiveSinks : ~s.stopped}

\* C12 as stated: in every reachable state at most one sink is active (not
\* stopped or dropped), namely the installed one, and current_device_name
\* holds one device name.
C12_Original_AtMostOneActiveSink ==
    /\ Cardinality(ActiveSinks) <= 1
    /\ ActiveSinks \subseteq {sink}
    /\ current_device_name \in DeviceNames

\* C12 (amended): one sink is installed and current_device_name holds one
\* device name; a sink other than the installed one exists only as the new
\* sink of an operation that has constructed it and not installed it yet, and
\* it is fresh (default volume, playing, nothing queued); whenever no
\* operation is in that window at most one sink is active, the installed one.
C12_OnlyPendingSinksBesideInstalled ==
    /\ current_device_name \in DeviceNames
    /\ \A t \in Threads :
          loc[t].new_sink # NoSink
          => /\ pc[t] \in {"sa_snapshot", "sa_install", "te_snapshot", "te_install"}
             /\ loc[t].new_sink = [Sink_try_new(t, loc[t].new_sink) EXCEPT !.stream = t]
             /\ sink.id # t
    /\ PendingSinks = {}
          => (Cardinality(ActiveSinks) <= 1 /\ ActiveSinks \subseteq {sink})

\* Two operations have each constructed their sink while the installed sink
\* is still playing.
C12_Witness ==
    /\ Cardinality(PendingSinks) = 2
    /\ Cardinality(ActiveSinks) = 3
    /\ ~sink.paused

\* C13: a stream created inside set_audio_device or toggle_exclusive_mode is
\* leaked and stays alive for the rest of the run, also when the sink cannot
\* be created on it; the stream of the installed sink and of every pending
\* sink is alive in every reachable state.
C13_StreamsStayAlive ==
    /\ [](/\ sink.stream \in streams
          /\ \A t \in Threads :
                /\ loc[t].new_sink # NoSink => loc[t].new_sink.stream \in streams
                /\ (pc[t] = "done" /\ result[t].status = "SinkCreationError")
                   => t \in streams)
    /\ [][streams \subseteq streams']_vars

\* A command failed at the construction of its sink; the installed sink is
\* the one another command installed.
C13_Witness ==
    \E t \in Threads :
        /\ pc[t] = "done"
        /\ result[t].status = "SinkCreationError"
        /\ t \in streams
        /\ sink.id \in Threads
        /\ sink.stream \in streams

\* C14: for every enumerated device and both values of the preference, a
\* successful create_optimized_output_stream labels the stream "optimized"
\* when the preference is set and "standard" when it is not, whatever the
\* probe finds, and opens the shared default stream of the device in all
\* cases; success does not depend on the preference.
C14_ModeStatusFollowsRequest ==
    \A d \in output_devices, x \in BOOLEAN :
        LET r == create_optimized_output_stream(1, d, x)
        IN /\ r.status = "Ok"
              => /\ r.stream.label = (IF x THEN "optimized" ELSE "standard")
                 /\ r.stream.kind = "shared"
                 /\ r.stream.dev = d
           /\ r.status = create_optimized_output_stream(1, d, ~x).status

\* A switch built its stream with the preference set on a device whose probe
\* fails.
C14_Witness ==
    \E t \in Threads :
        /\ pc[t] = "sa_snapshot"
        /\ loc[t].new_sink.requested
        /\ ~check_exclusive_mode_support(loc[t].new_sink.dev)
        /\ create_optimized_output_stream(t, loc[t].new_sink.dev, TRUE).stream.label
             = "optimized"

\* C15 as stated: a toggle_exclusive_mode that fails before it installs a
\* sink (device not found, stream creation failed) leaves Player State as it
\* was before the call, exclusive_mode included.
C15_ToggleFailureLeavesState ==
    \A t \in Threads :
        (/\ Quiet(t)
         /\ Is(t, "toggle_exclusive_mode")
         /\ result[t].status \in {"DeviceNotFound", "StreamCreationError"})
        => PlayerSnapshot = pre[t]

\* C16: a toggle_exclusive_mode(x, time) that runs alone when the preference
\* differs from x and a track is loaded builds its stream on the device
\* current_device_name names, with preference x; once its sink is installed
\* and restored the installed sink is that new sink, current_device_name and
\* current_path are as before the call and the preference is x; play_track
\* is called with the loaded path and `time` on the new sink.
C16_ToggleRebuildsOnCurrentDevice ==
    \A t \in Threads :
        (/\ solo[t]
         /\ Is(t, "toggle_exclusive_mode")
         /\ call[t].enabled # pre[t].exclusive_mode
         /\ pre[t].current_path # None)
        => /\ loc[t].new_sink # NoSink
              => /\ loc[t].new_sink.dev = pre[t].current_device_name
                 /\ loc[t].new_sink.requested = call[t].enabled
           /\ pc[t] = "te_reload"
              => /\ sink.id = t
                 /\ sink.dev = pre[t].current_device_name
                 /\ sink.requested = call[t].enabled
                 /\ ~sink.stopped
                 /\ sink.stream \in streams
                 /\ current_device_name = pre[t].current_device_name
                 /\ current_path = pre[t].current_path
                 /\ exclusive_mode = call[t].enabled
           /\ (Quiet(t) /\ result[t].status \in {"Ok", "PlaybackReloadError"})
              => reloads[t] = [path |-> pre[t].current_path,
                               at_time |-> call[t].current_time,
                               sink |-> t]

\* The toggle rebuilt the stream on Headphones, the device an earlier switch
\* had made current, while the host default is Speakers.
C16_Witness ==
    \E t \in Threads :
        /\ Quiet(t)
        /\ Is(t, "toggle_exclusive_mode")
        /\ result[t].status = "Ok"
        /\ pre[t].current_device_name = "Headphones"
        /\ default_output_device = "Speakers"
        /\ sink.dev = "Headphones"
        /\ sink.requested
        /\ reloads[t].sink = t

\* C17: a set_audio_device that runs alone calls play_track at most once,
\* only when the current_path it read is present, with that path and the
\* current_time of the caller, and at the moment of the call its sink is
\* installed, volume and play/pause are re-applied and current_device_name
\* is the target; with no track loaded a switch that installed its sink
\* returns Ok without a play_track call.
C17_ReloadOnceAfterSwitch ==
    /\ [](\A t \in Threads :
            (solo[t] /\ Is(t, "set_audio_device"))
            => /\ reloads[t] # NoReload
                  => /\ pre[t].current_path # None
                     /\ reloads[t] = [path |-> pre[t].current_path,
                                      at_time |-> call[t].current_time,
                                      sink |-> t]
               /\ (Quiet(t) /\ pre[t].current_path = None /\ sink.id = t)
                  => (result[t].status = "Ok" /\ reloads[t] = NoReload))
    /\ [][\A t \in Threads :
            (/\ solo[t]
             /\ Is(t, "set_audio_device")
             /\ reloads'[t] # reloads[t]
             /\ reloads'[t] # NoReload)
            => /\ reloads[t] = NoReload
               /\ pc'[t] = "done"
               /\ sink.id = t
               /\ ~sink.stopped
               /\ sink.volume = pre[t].sink.volume
               /\ sink.paused = pre[t].sink.paused
               /\ current_device_name = call[t].device_name]_vars

\* The switch to Headphones reloaded song.mp3 at 30.0 on its new sink.
C17_Witness ==
    \E t \in Threads :
        /\ Quiet(t)
        /\ Is(t, "set_audio_device")
        /\ result[t].status = "Ok"
        /\ reloads[t] = [path |-> "song.mp3", at_time |-> "30.0", sink |-> t]
        /\ current_device_name = "Headphones"
        /\ pre[t].current_device_name = "Speakers"

\* C20 as stated: under any interleaving, the sink an operation overwrites
\* when it installs its own sink is the sink that same operation snapshotted
\* and stopped.
C20_ReplacedSinkWasStoppedByReplacer ==
    [][\A t \in Threads :
          (pc[t] \in {"sa_install", "te_install"} /\ pc'[t] # pc[t])
          => (sink.id = loc[t].old_sink /\ sink.stopped)]_vars

\* C18 as stated: on every host, a get_audio_devices that returns a list
\* returns no two descriptors with the same name and at most one descriptor
\* with is_default; it returns one descriptor per device whose name can be
\* read and none for the others.
C18_ListedNamesUnique ==
    \A t \in Threads :
        (pc[t] = "done" /\ Is(t, "get_audio_devices") /\ result[t].status = "Ok")
        => LET v == result[t].value
           IN /\ \A i, j \in DOMAIN v : i # j => v[i].name # v[j].name
              /\ Cardinality({i \in DOMAIN v : v[i].is_default}) <= 1
              /\ \A i \in DOMAIN v : v[i].name # None
              /\ Len(v) = Cardinality({i \in DOMAIN cpal_host.devices :
                                          cpal_host.devices[i].name # None})

\* The info a returned get_current_audio_device of t holds.
CurrentInfo(t) ==
    pc[t] = "done" /\ Is(t, "get_current_audio_device") /\ result[t].status = "Ok"

C11_NoLockAcrossExternalCall ==
    \A t \in Threads :
        /\ pc[t] \in ExternalCallSites => HeldBy(t) = {}
        /\ Cardinality(HeldBy(t)) <= 1
        /\ \A e \in LockSites :
              (e[2] = "sink" /\ pc[t] \in {e[1], e[3]}) => t \in streams
        /\ lock["sink"] = t => t \in streams
        /\ pc[t] \in {"idle", "done"} => HeldBy(t) = {}

\* One command holds the sink mutex while another is creating its stream.
C11_Witness ==
    \E t, u \in Threads :
        /\ t # u
        /\ lock["sink"] = t
        /\ pc[t] \in {"sa88", "te315"}
        /\ pc[u] \in {"sa75", "te303"}
        /\ HeldBy(u) = {}


\* C21: a get_current_audio_device that runs alone changes no Player State,
\* creates no stream and issues no play_track call.  When it returns an info,
\* is_exclusive_mode is the stored preference and audio_mode_status is
\* "optimized" exactly when the preference is true and "standard" exactly
\* when it is false, whatever the probe of the device found.  When the device
\* that current_device_name names is not enumerated it returns the not-found
\* error (the enumeration itself not failing), and only then.
C21_ModeFieldsFollowPreference ==
    \A t \in Threads :
        (Quiet(t) /\ Is(t, "get_current_audio_device"))
        => /\ PlayerSnapshot = pre[t]
           /\ ~sink.stopped
           /\ NoStreamNoReload(t)
           /\ result[t].status \in {"Ok", "DeviceNotFound", "EnumerationError"}
           /\ result[t].status = "Ok"
              => /\ result[t].value.is_exclusive_mode = exclusive_mode
                 /\ result[t].value.audio_mode_status = "optimized" <=> exclusive_mode
                 /\ result[t].value.audio_mode_status = "standard" <=> ~exclusive_mode
                 /\ current_device_name \in output_devices
           /\ (current_device_name \notin output_devices
                  /\ result[t].status # "EnumerationError")
              => result[t].status = "DeviceNotFound"
           /\ result[t].status = "DeviceNotFound"
              => current_device_name \notin output_devices

\* The info says "optimized" for a device on which the probe failed.
C21_Witness ==
    \E t \in Threads :
        /\ Quiet(t)
        /\ Is(t, "get_current_audio_device")
        /\ result[t].status = "Ok"
        /\ result[t].value.audio_mode_status = "optimized"
        /\ ~result[t].value.supports_exclusive_mode
        /\ exclusive_mode

\* The device that current_device_name names was unplugged: not found.
C21_NotFoundReached ==
    \E t \in Threads :
        /\ Quiet(t)
        /\ Is(t, "get_current_audio_device")
        /\ result[t].status = "DeviceNotFound"
        /\ pre[t].current_path # None

\* Every thread ran a set_audio_device or a toggle_exclusive_mode, the
\* commands overlapped, and all of them have returned.
SwitchesAndTogglesDone ==
    \A t \in Threads :
        /\ pc[t] = "done"
        /\ call[t].op \in {"set_audio_device", "toggle_exclusive_mode"}

\* C22 as stated: once concurrent set_audio_device and toggle_exclusive_mode
\* commands have all returned, the installed sink is on a stream of the
\* device that current_device_name names.
C22_QuiescentSinkOnCurrentDevice ==
    SwitchesAndTogglesDone => sink.dev = current_device_name

\* A toggle_exclusive_mode that resolved "Speakers" installed its sink after
\* a set_audio_device("Headphones") had installed its own and stored the name.
C22_ToggleOverwritesSwitch ==
    /\ SwitchesAndTogglesDone
    /\ \E t, u \in Threads :
          /\ Is(t, "toggle_exclusive_mode") /\ result[t].status = "Ok"
          /\ Is(u, "set_audio_device") /\ result[u].status = "Ok"
          /\ call[u].device_name = "Headphones"
          /\ sink.id = t
          /\ sink.dev = "Speakers"
          /\ current_device_name = "Headphones"

\* C23 as stated: once concurrent set_audio_device and toggle_exclusive_mode
\* commands have all returned, the installed sink has the volume and the
\* paused flag the sink had when the first of them was invoked.
C23_ConcurrentCallsKeepVolumeAndPause ==
    SwitchesAndTogglesDone
    => \A t \in Threads :
          pre[t] # NoPre => /\ sink.volume = pre[t].sink.volume
                            /\ sink.paused = pre[t].sink.paused

\* t and u are two overlapping toggle_exclusive_mode commands with the same
\* `enabled`, invoked (t first) while the preference had the other value and
\* a track was loaded; both returned Ok.
TwoEqualTogglesDone(t, u) ==
    /\ t # u
    /\ pc[t] = "done" /\ pc[u] = "done"
    /\ Is(t, "toggle_exclusive_mode") /\ Is(u, "toggle_exclusive_mode")
    /\ call[t].enabled = call[u].enabled
    /\ result[t].status = "Ok" /\ result[u].status = "Ok"
    /\ pre[t] # NoPre /\ pre[u] = NoPre
    /\ pre[t].exclusive_mode # call[t].enabled
    /\ pre[t].current_path # None

\* C24 as stated: of two concurrent toggle_exclusive_mode(x, _) commands
\* started while the preference is not x and a track is loaded, exactly one
\* rebuilds the stream and reloads the track; the other is a no-op.
C24_OneToggleRebuilds ==
    \A t, u \in Threads :
        TwoEqualTogglesDone(t, u)
        => /\ Cardinality({w \in {t, u} : w \in streams}) = 1
           /\ Cardinality({w \in {t, u} : reloads[w] # NoReload}) = 1

\* C25 as stated: a command that starts (alone) in a state where the stored
\* preference is the exclusive_requested value the installed sink's stream
\* was built with leaves, when it returns, a state where they are equal again;
\* so the mode get_current_audio_device derives from the preference is the
\* mode of the installed stream whenever no command is in flight.
C25_ModeMatchesInstalledStream ==
    \A t \in Threads :
        (Quiet(t) /\ pre[t].exclusive_mode = pre[t].sink.requested)
        => exclusive_mode = sink.requested

\* C26: with fair scheduling and external calls that return, every
\* dispatched set_audio_device, toggle_exclusive_mode, get_exclusive_mode and
\* get_current_audio_device eventually returns, and whenever no command is
\* in flight every Player State mutex is free.
C26_EveryCommandReturns ==
    /\ \A t \in Threads : InFlight(t) ~> (pc[t] = "done")
    /\ []((\A t \in Threads : ~InFlight(t)) => \A m \in Locks : lock[m] = 0)

\* Two commands contend: one waits in lock() for the sink mutex the other
\* holds, and a third mutex-free command may be anywhere.
C26_Witness ==
    \E t, u \in Threads :
        /\ t # u
        /\ \E e \in LockSites : e[2] = "sink" /\ pc[t] = e[1]
        /\ lock["sink"] = u
        /\ pc[u] \in {"sa88", "sa98", "sa104", "te315", "te323", "te329"}
====
